---- MODULE Spec2Model ----
(***************************************************************************)
(* Attendance ledger (database.py) and sync reconciler (telegram_utils.py) *)
(* of the face-recognition attendance system.                              *)
(*                                                                         *)
(* The attendance table is a set of rows; the students and subjects tables *)
(* are the sets of ids that currently have a row.  Every Database method   *)
(* is one action of Spec (a whole call, commit included).  SpecConc splits *)
(* mark_attendance into its SELECT step and its INSERT/UPDATE step, run by *)
(* several capture sessions.  SpecFault adds the `except` branch of        *)
(* mark_attendance_synced.                                                 *)
(*                                                                         *)
(* The second part models the identity store with its columns (info), the  *)
(* gallery of one FaceRecognitionUtils object, the matcher and             *)
(* get_attendance_stats.  SpecStore runs the handlers of the enrollment    *)
(* page, SpecMatch recognize_faces, SpecGallery load_known_faces line by   *)
(* line next to a reader, SpecStats get_attendance_stats.  Spec, SpecFault *)
(* and SpecConc do not look at the columns of students and leave the       *)
(* variables of the second part as Init makes them.                        *)
(***************************************************************************)
EXTENDS Integers, Sequences, FiniteSets, TLC

\* ---------------------------------------------------------------- bounds
MaxStudents == 2
MaxSubjects == 2
MaxDate == 2
MaxTime == 2
MaxRecords == 2
NumSessions == 2
MaxFaces == 2
MaxRolls == 2
MaxSemester == 2
MaxLate == 2
MaxAttempts == 2
MaxConns == 4

StudentIds == 1..MaxStudents
SubjectIds == 1..MaxSubjects
Times == 1..MaxTime
Sessions == 1..NumSessions
Status == {"present", "absent"}

VARIABLES
    students,       \* ids of the rows of table students
    subjects,       \* ids of the rows of table subjects
    nextStudentId,  \* AUTOINCREMENT counter of students.id
    nextSubjectId,  \* AUTOINCREMENT counter of subjects.id
    attendance,     \* rows of table attendance
    nextAttId,      \* AUTOINCREMENT counter of attendance.id
    today,          \* date.today()
    lastMark,       \* per key, status and time of the last mark_attendance
    ret,            \* what the last completed call did and returned
    pc,             \* SpecConc: position of each session in mark_attendance
    loc,            \* SpecConc: local variables of each session's call
    info,           \* columns roll_no, semester, face_encoding of students
    deleted,        \* ids that delete_student removed (history)
    known_face_encodings,   \* FaceRecognitionUtils.known_face_encodings
    known_face_names,       \* FaceRecognitionUtils.known_face_names
    known_face_ids,         \* FaceRecognitionUtils.known_face_ids
    load,           \* SpecGallery: position and locals of load_known_faces
    seen,           \* SpecGallery: what the reader read last
    out,            \* result of the last call of the second part
    capture_active,         \* st.session_state.capture_active
    recognized_students,    \* st.session_state.recognized_students
    cap,            \* the camera handle of the attendance page
    run,            \* position and locals of the attendance page's script
    branch,         \* column branch of students
    stat,           \* SpecSnap: position and locals of get_attendance_stats
    rec,            \* SpecRecon: position and locals of sync_pending_attendance
    conn,           \* SpecConn: Database.conn of the shared object
    connections,    \* SpecConn: the sqlite3 connections opened so far
    calls           \* SpecConn: position and local conn of each session

ledgerVars == <<students, subjects, nextStudentId, nextSubjectId, attendance,
                nextAttId, today, lastMark, ret, pc, loc>>

faceVars == <<info, deleted, known_face_encodings, known_face_names,
              known_face_ids, load, seen, out>>

callVars == <<rec, conn, connections, calls>>

pageVars == <<capture_active, recognized_students, cap, run, branch, stat,
              rec, conn, connections, calls>>

vars == <<students, subjects, nextStudentId, nextSubjectId, attendance,
          nextAttId, today, lastMark, ret, pc, loc, info, deleted,
          known_face_encodings, known_face_names, known_face_ids, load,
          seen, out, capture_active, recognized_students, cap, run,
          branch, stat, rec, conn, connections, calls>>

\* ------------------------------------------------------------- helpers
Min(S) == CHOOSE x \in S : \A y \in S : x <= y

Row(id, student_id, subject_id, d, t, status, synced) ==
    [id |-> id, student_id |-> student_id, subject_id |-> subject_id,
     date |-> d, time |-> t, status |-> status, synced |-> synced]

KeyOf(r) == <<r.student_id, r.subject_id, r.date>>

RowsOfKey(att, student_id, subject_id, d) ==
    {r \in att : r.student_id = student_id /\ r.subject_id = subject_id
                 /\ r.date = d}

\* ------------------------------------------------- Database.mark_attendance
\* SELECT id FROM attendance WHERE student_id = ? AND subject_id = ? AND
\* date = ?; fetchone() gives the first row (lowest rowid) or None (0 here).
SelectExisting(att, student_id, subject_id, d) ==
    LET ids == {r.id : r \in RowsOfKey(att, student_id, subject_id, d)}
    IN  IF ids = {} THEN 0 ELSE Min(ids)

\* UPDATE attendance SET time = ?, status = ?, synced = ? WHERE id = ?
UpdateAttendance(att, id, t, status, sync) ==
    {IF r.id = id THEN [r EXCEPT !.time = t, !.status = status,
                                 !.synced = sync]
                  ELSE r : r \in att}

\* INSERT INTO attendance (student_id, subject_id, date, time, status, synced)
InsertAttendance(att, newId, student_id, subject_id, d, t, status, sync) ==
    att \cup {Row(newId, student_id, subject_id, d, t, status, sync)}

\* mark_attendance without the lookup: every call inserts
MarkWrite_AlwaysInsert(att, newId, existing, student_id, subject_id, d, t, status, sync) ==
    InsertAttendance(att, IF existing # 0 THEN newId + existing ELSE newId,
                     student_id, subject_id, d, t, status, sync)

\* the if existing / else of mark_attendance
MarkWrite(att, newId, existing, student_id, subject_id, d, t, status, sync) ==
    IF existing # 0
    THEN UpdateAttendance(att, existing, t, status, sync)
    ELSE InsertAttendance(att, newId, student_id, subject_id, d, t, status,
                          sync)

\* lastMark after a call on the key
RecordMark(lm, student_id, subject_id, d, t, status) ==
    {m \in lm : ~(m.student_id = student_id /\ m.subject_id = subject_id
                  /\ m.date = d)}
    \cup {[student_id |-> student_id, subject_id |-> subject_id, date |-> d,
           time |-> t, status |-> status]}

\* ------------------------------------------------------------ transport
\* TelegramBot.send_message_sync: the demo transport, always success
send_message_sync ==
    [success |-> TRUE, error |-> "Message sent successfully (demo mode)"]

\* the failure outcome of the external transport: failure(reason)
TransportFailure == [success |-> FALSE, error |-> "TransportFailure"]

\* deliver(report) -> success | failure(reason)
Transport == {send_message_sync, TransportFailure}

\* ------------------------------------------ Database.get_unsynced_attendance
\* the query without WHERE a.synced = FALSE
get_unsynced_attendance_NoFilter(att, studs, subs) ==
    {r \in att : r.student_id \in studs /\ r.subject_id \in subs}

\* attendance JOIN students JOIN subjects WHERE a.synced = FALSE
get_unsynced_attendance(att, studs, subs) ==
    {r \in att : r.student_id \in studs /\ r.subject_id \in subs
                 /\ ~r.synced}

\* Database.get_attendance(date_filter, subject_id) as the attendance page
\* calls it: attendance JOIN students JOIN subjects WHERE date and subject
get_attendance(att, studs, subs, d, subject_id) ==
    {r \in att : r.student_id \in studs /\ r.subject_id \in subs
                 /\ r.date = d /\ r.subject_id = subject_id}

\* ------------------------------------------- Database.mark_attendance_synced
\* a reconciler that removes the delivered row instead of flagging it
mark_attendance_synced_Purge(att, id, ok) ==
    IF ok THEN {r \in att : r.id # id} ELSE att

\* UPDATE attendance SET synced = TRUE WHERE id = ?; ok = FALSE is the
\* except branch (the statement raised, nothing is written, returns False)
mark_attendance_synced(att, id, ok) ==
    IF ok
    THEN {IF r.id = id THEN [r EXCEPT !.synced = TRUE] ELSE r : r \in att}
    ELSE att

RECURSIVE MarkAllSynced(_, _, _)
\* for idx, row in attendance_data.iterrows(): mark_attendance_synced(row.id)
MarkAllSynced(att, ids, okIds) ==
    IF ids = {} THEN att
    ELSE LET id == Min(ids)
         IN  MarkAllSynced(mark_attendance_synced(att, id, id \in okIds),
                           ids \ {id}, okIds)

\* --------------------------------------- TelegramBot.send_attendance_report
\* the report without `if success:`: the rows are marked whatever came back
send_attendance_report_IgnoreOutcome(att, data, outcome, okIds) ==
    IF data = {}
    THEN [att |-> att, success |-> FALSE,
          error |-> "No attendance data to send", sent |-> FALSE]
    ELSE [att |-> MarkAllSynced(att, {r.id : r \in data}, okIds),
          success |-> outcome.success, error |-> outcome.error,
          sent |-> TRUE]

\* the report marking its first row before the message is sent
send_attendance_report_MarkFirstEarly(att, data, outcome, okIds) ==
    IF data = {}
    THEN [att |-> att, success |-> FALSE,
          error |-> "No attendance data to send", sent |-> FALSE]
    ELSE LET first == Min({r.id : r \in data})
             early == mark_attendance_synced(att, first, first \in okIds)
         IN  [att |-> IF outcome.success
                      THEN MarkAllSynced(early, {r.id : r \in data}, okIds)
                      ELSE early,
              success |-> outcome.success, error |-> outcome.error,
              sent |-> TRUE]

\* data: the rows of the report; outcome: what the transport returned;
\* okIds: the ids whose synced update does not raise.
\* Result: the table afterwards, (success, error), and whether the transport
\* was called.
send_attendance_report(att, data, outcome, okIds) ==
    IF data = {}
    THEN [att |-> att, success |-> FALSE,
          error |-> "No attendance data to send", sent |-> FALSE]
    ELSE [att |-> IF outcome.success
                  THEN MarkAllSynced(att, {r.id : r \in data}, okIds)
                  ELSE att,
          success |-> outcome.success, error |-> outcome.error,
          sent |-> TRUE]

\* ---------------------------------------- TelegramBot.sync_pending_attendance
\* unsynced_attendance.groupby(["date", "subject_id"]): the group keys in
\* ascending order
GroupKeys(data) == {<<r.date, r.subject_id>> : r \in data}

KeyLess(k1, k2) == k1[1] < k2[1] \/ (k1[1] = k2[1] /\ k1[2] < k2[2])

RECURSIVE SortKeys(_)
SortKeys(K) ==
    IF K = {} THEN <<>>
    ELSE LET k == CHOOSE x \in K : \A y \in K \ {x} : KeyLess(x, y)
         IN  <<k>> \o SortKeys(K \ {k})

Group(data, k) == {r \in data : r.date = k[1] /\ r.subject_id = k[2]}

groupby(data) ==
    LET ks == SortKeys(GroupKeys(data))
    IN  [i \in 1..Len(ks) |-> Group(data, ks[i])]

Batch(group, res) ==
    [date |-> (CHOOSE r \in group : TRUE).date,
     subject_id |-> (CHOOSE r \in group : TRUE).subject_id,
     ids |-> {r.id : r \in group},
     success |-> res.success, error |-> res.error]

RECURSIVE SyncLoop_StopOnFailure(_, _, _, _, _, _)
\* the loop with a break after the first failed report
SyncLoop_StopOnFailure(groups, i, outs, okIds, att, acc) ==
    IF i > Len(groups) THEN [att |-> att, acc |-> acc]
    ELSE LET res == send_attendance_report(att, groups[i], outs[i], okIds)
         IN  IF res.success
             THEN SyncLoop_StopOnFailure(groups, i + 1, outs, okIds, res.att,
                     [acc EXCEPT !.success_count = @ + 1,
                                 !.batches = Append(@, Batch(groups[i], res))])
             ELSE [att |-> res.att,
                   acc |-> [acc EXCEPT !.error_count = @ + 1,
                               !.error_messages = Append(@, res.error),
                               !.batches = Append(@, Batch(groups[i], res))]]

RECURSIVE SyncLoop(_, _, _, _, _, _)
\* for (date, subject_id), group in grouped: ... ; acc collects
\* success_count, error_count, error_messages and the batches handled
SyncLoop(groups, i, outs, okIds, att, acc) ==
    IF i > Len(groups) THEN [att |-> att, acc |-> acc]
    ELSE LET res == send_attendance_report(att, groups[i], outs[i], okIds)
             acc2 == IF res.success
                     THEN [acc EXCEPT !.success_count = @ + 1,
                                      !.batches = Append(@, Batch(groups[i], res))]
                     ELSE [acc EXCEPT !.error_count = @ + 1,
                                      !.error_messages = Append(@, res.error),
                                      !.batches = Append(@, Batch(groups[i], res))]
         IN  SyncLoop(groups, i + 1, outs, okIds, res.att, acc2)

EmptyAcc == [success_count |-> 0, error_count |-> 0, error_messages |-> <<>>,
             batches |-> <<>>]

\* the whole call: the table afterwards, the bookkeeping, the returned flag
sync_pending_attendance(att, studs, subs, outs, okIds) ==
    LET unsynced == get_unsynced_attendance(att, studs, subs)
    IN  IF unsynced = {}
        THEN [att |-> att, acc |-> EmptyAcc, ok |-> TRUE]
        ELSE LET r == SyncLoop(groupby(unsynced), 1, outs, okIds, att,
                               EmptyAcc)
             IN  [att |-> r.att, acc |-> r.acc,
                  ok |-> (r.acc.error_count = 0)]

\* ------------------------------------------------------------ last call
NoRet ==
    [op |-> "other", afterSync |-> FALSE, student_id |-> 0, subject_id |-> 0,
     date |-> 0, sync |-> FALSE, existed |-> FALSE, oldSynced |-> FALSE,
     changed |-> FALSE, ok |-> TRUE, batches |-> <<>>, pending |-> {},
     sends |-> 0, prevSends |-> 0, prevFailed |-> {},
     success_count |-> 0, error_count |-> 0, error_messages |-> <<>>]

\* the local variables of a mark_attendance call in progress
NoLoc ==
    [student_id |-> 0, subject_id |-> 0, date |-> 0, time |-> 0,
     status |-> "present", sync |-> FALSE, existing |-> 0]

RetOf(op) == [NoRet EXCEPT !.op = op]

\* the id sets of the batches that were delivered (success) or not
BatchesOf(bs, success) ==
    {bs[i].ids : i \in {j \in 1..Len(bs) : bs[j].success = success}}

BatchIds(bs, success) == UNION BatchesOf(bs, success)

\* the three lists of a FaceRecognitionUtils object
Gallery(encodings, names, ids) ==
    [encodings |-> encodings, names |-> names, ids |-> ids]

\* FaceRecognitionUtils.__init__: three empty lists
EmptyGallery == Gallery(<<>>, <<>>, <<>>)

\* no load_known_faces call in progress
NoLoad ==
    [pc |-> "idle", students |-> <<>>, readOk |-> TRUE,
     snapshot |-> EmptyGallery]

\* the reader has not read yet
NoSeen == [op |-> "none"]

\* no call of the second part was made yet
NoOut == [op |-> "none"]

\* the attendance page before "Start Capturing": no frame, no exit yet
NoRun == [pc |-> "page", subject_id |-> 0, frame |-> <<>>, exit |-> "none",
          late |-> 0]

\* no get_attendance_stats call in progress
NoStat ==
    [pc |-> "idle", date_filter |-> 0, subject_id |-> 0, total |-> 0,
     present |-> 0, by_branch |-> <<>>]

\* no sync_pending_attendance call was made yet
NoRec ==
    [pc |-> "idle", groups |-> <<>>, i |-> 1, todo |-> {},
     attempts |-> <<>>, delivered |-> <<>>]

\* a session that is in no Database method: its local conn is not bound
NoCall == [pc |-> "idle", conn |-> 0, own |-> 0]

\* ------------------------------------------------------------------ Init
\* Database.__init__ / create_tables: empty tables; a FaceRecognitionUtils
\* object built over the empty store has three empty lists
Init ==
    /\ capture_active = FALSE
    /\ recognized_students = {}
    /\ cap = "none"
    /\ run = NoRun
    /\ branch = <<>>
    /\ stat = NoStat
    /\ rec = NoRec
    /\ conn = 0
    /\ connections = <<>>
    /\ calls = [s \in Sessions |-> NoCall]
    /\ info = <<>>
    /\ deleted = {}
    /\ known_face_encodings = <<>>
    /\ known_face_names = <<>>
    /\ known_face_ids = <<>>
    /\ load = NoLoad
    /\ seen = NoSeen
    /\ out = NoOut
    /\ students = {}
    /\ subjects = {}
    /\ nextStudentId = 1
    /\ nextSubjectId = 1
    /\ attendance = {}
    /\ nextAttId = 1
    /\ today = 1
    /\ lastMark = {}
    /\ ret = NoRet
    /\ pc = [s \in Sessions |-> "idle"]
    /\ loc = [s \in Sessions |-> NoLoc]

\* --------------------------------------------------------------- actions
\* Database.add_student: INSERT INTO students, id from AUTOINCREMENT
add_student ==
    /\ nextStudentId <= MaxStudents
    /\ students' = students \cup {nextStudentId}
    /\ nextStudentId' = nextStudentId + 1
    /\ ret' = NoRet
    /\ UNCHANGED <<subjects, nextSubjectId, attendance, nextAttId, today,
                   lastMark, pc, loc>>

\* Database.delete_student: DELETE FROM students WHERE id = ?
delete_student(student_id) ==
    /\ students' = students \ {student_id}
    /\ ret' = NoRet
    /\ UNCHANGED <<subjects, nextStudentId, nextSubjectId, attendance,
                   nextAttId, today, lastMark, pc, loc>>

\* Database.add_subject: INSERT INTO subjects, id from AUTOINCREMENT
add_subject ==
    /\ nextSubjectId <= MaxSubjects
    /\ subjects' = subjects \cup {nextSubjectId}
    /\ nextSubjectId' = nextSubjectId + 1
    /\ ret' = NoRet
    /\ UNCHANGED <<students, nextStudentId, attendance, nextAttId, today,
                   lastMark, pc, loc>>

\* Database.delete_subject: DELETE FROM subjects WHERE id = ?
delete_subject(subject_id) ==
    /\ subjects' = subjects \ {subject_id}
    /\ ret' = NoRet
    /\ UNCHANGED <<students, nextStudentId, nextSubjectId, attendance,
                   nextAttId, today, lastMark, pc, loc>>

\* date.today() moves on
NextDay ==
    /\ today < MaxDate
    /\ today' = today + 1
    /\ ret' = NoRet
    /\ UNCHANGED <<students, subjects, nextStudentId, nextSubjectId,
                   attendance, nextAttId, lastMark, pc, loc>>

\* Database.mark_attendance(student_id, subject_id, status, sync), one whole
\* call; current_time is datetime.now().  The callers pass the id of a
\* student of the gallery and the subject chosen in the subject selector.
mark_attendance(student_id, subject_id, status, sync, current_time) ==
    LET current_date == today
        existing == SelectExisting(attendance, student_id, subject_id,
                                   current_date)
    IN  /\ existing # 0 \/ nextAttId <= MaxRecords
        /\ attendance' = MarkWrite(attendance, nextAttId, existing,
                                   student_id, subject_id, current_date,
                                   current_time, status, sync)
        /\ nextAttId' = IF existing # 0 THEN nextAttId ELSE nextAttId + 1
        /\ lastMark' = RecordMark(lastMark, student_id, subject_id,
                                  current_date, current_time, status)
        /\ ret' = [RetOf("mark") EXCEPT
                     !.student_id = student_id, !.subject_id = subject_id,
                     !.date = current_date, !.sync = sync,
                     !.existed = (existing # 0),
                     !.oldSynced = (\E r \in attendance :
                                      r.id = existing /\ r.synced),
                     !.changed = (\E r \in attendance :
                                    /\ r.id = existing
                                    /\ r.time # current_time
                                    /\ r.status # status)]
        /\ UNCHANGED <<students, subjects, nextStudentId, nextSubjectId,
                       today, pc, loc>>

\* the ret of a sync_pending_attendance call
SyncRet(res, pending) ==
    [RetOf("sync") EXCEPT
       !.afterSync = (ret.op = "sync"),
       !.ok = res.ok, !.batches = res.acc.batches, !.pending = pending,
       !.sends = Len(res.acc.batches),
       !.prevSends = IF ret.op = "sync" THEN ret.sends ELSE 0,
       !.prevFailed = IF ret.op = "sync" THEN BatchesOf(ret.batches, FALSE)
                      ELSE {},
       !.success_count = res.acc.success_count,
       !.error_count = res.acc.error_count,
       !.error_messages = res.acc.error_messages]

\* TelegramBot.sync_pending_attendance, one whole call; outs are the
\* transport's answers to the reports in the order they are sent, failIds
\* the ids whose synced update raises
SyncCall(outs, failIds) ==
    LET res == sync_pending_attendance(attendance, students, subjects, outs,
                                       {r.id : r \in attendance} \ failIds)
    IN  /\ attendance' = res.att
        /\ ret' = SyncRet(res, {r.id : r \in {x \in attendance : ~x.synced}})
        /\ UNCHANGED <<students, subjects, nextStudentId, nextSubjectId,
                       nextAttId, today, lastMark, pc, loc>>

NumGroups ==
    Cardinality(GroupKeys(get_unsynced_attendance(attendance, students,
                                                  subjects)))

SyncPending ==
    \E outs \in [1..NumGroups -> Transport] : SyncCall(outs, {})

\* the ret of a send_attendance_report call made by the attendance page
ReportRet(res, data) ==
    [RetOf("report") EXCEPT
       !.ok = res.success, !.subject_id = (CHOOSE r \in data : TRUE).subject_id,
       !.date = today,
       !.batches = <<Batch(data, res)>>,
       !.pending = {r.id : r \in {x \in data : ~x.synced}},
       !.sends = IF res.sent THEN 1 ELSE 0,
       !.success_count = IF res.success THEN 1 ELSE 0,
       !.error_count = IF res.success THEN 0 ELSE 1,
       !.error_messages = IF res.success THEN <<>> ELSE <<res.error>>]

\* pages/2_Take_Attendance.py "Send Attendance Report to Telegram":
\* send_attendance_report(get_attendance(today, selected_subject_id)), offered
\* only when that frame is not empty
ReportCall(subject_id, outcome, failIds) ==
    LET data == get_attendance(attendance, students, subjects, today,
                               subject_id)
        res == send_attendance_report(attendance, data, outcome,
                                      {r.id : r \in attendance} \ failIds)
    IN  /\ data # {}
        /\ attendance' = res.att
        /\ ret' = ReportRet(res, data)
        /\ UNCHANGED <<students, subjects, nextStudentId, nextSubjectId,
                       nextAttId, today, lastMark, pc, loc>>

SendReport ==
    \E subject_id \in SubjectIds, outcome \in Transport :
        ReportCall(subject_id, outcome, {})

MarkAttendance ==
    \E student_id \in students, subject_id \in subjects,
       status \in Status, sync \in BOOLEAN, current_time \in Times :
        mark_attendance(student_id, subject_id, status, sync, current_time)

DeleteStudent == \E student_id \in StudentIds : delete_student(student_id)

DeleteSubject == \E subject_id \in SubjectIds : delete_subject(subject_id)

Next ==
    \/ add_student /\ UNCHANGED faceVars /\ UNCHANGED pageVars
    \/ DeleteStudent /\ UNCHANGED faceVars /\ UNCHANGED pageVars
    \/ add_subject /\ UNCHANGED faceVars /\ UNCHANGED pageVars
    \/ DeleteSubject /\ UNCHANGED faceVars /\ UNCHANGED pageVars
    \/ NextDay /\ UNCHANGED faceVars /\ UNCHANGED pageVars
    \/ MarkAttendance /\ UNCHANGED faceVars /\ UNCHANGED pageVars
    \/ SyncPending /\ UNCHANGED faceVars /\ UNCHANGED pageVars
    \/ SendReport /\ UNCHANGED faceVars /\ UNCHANGED pageVars

Spec == Init /\ [][Next]_vars

\* --------------------------------------------- SpecFault: failing updates
AttIds == {r.id : r \in attendance}

\* sync_pending_attendance while mark_attendance_synced raises for failIds
SyncPendingFault ==
    \E outs \in [1..NumGroups -> Transport], failIds \in SUBSET AttIds :
        SyncCall(outs, failIds)

\* the page's send_attendance_report while mark_attendance_synced raises
SendReportFault ==
    \E subject_id \in SubjectIds, outcome \in Transport,
       failIds \in SUBSET AttIds :
        ReportCall(subject_id, outcome, failIds)

NextFault ==
    \/ add_student /\ UNCHANGED faceVars /\ UNCHANGED pageVars
    \/ add_subject /\ UNCHANGED faceVars /\ UNCHANGED pageVars
    \/ MarkAttendance /\ UNCHANGED faceVars /\ UNCHANGED pageVars
    \/ SyncPendingFault /\ UNCHANGED faceVars /\ UNCHANGED pageVars
    \/ SendReportFault /\ UNCHANGED faceVars /\ UNCHANGED pageVars

SpecFault == Init /\ [][NextFault]_vars

\* ------------------------- SpecConc: mark_attendance of concurrent sessions
\* connect, date.today(), datetime.now(), the SELECT and fetchone()
MarkSelect(s, student_id, subject_id, status, sync, current_time) ==
    /\ pc[s] = "idle"
    /\ loc' = [loc EXCEPT ![s] =
                 [student_id |-> student_id, subject_id |-> subject_id,
                  date |-> today, time |-> current_time, status |-> status,
                  sync |-> sync,
                  existing |-> SelectExisting(attendance, student_id,
                                              subject_id, today)]]
    /\ pc' = [pc EXCEPT ![s] = "selected"]
    /\ UNCHANGED <<students, subjects, nextStudentId, nextSubjectId,
                   attendance, nextAttId, today, lastMark, ret>>

\* the UPDATE or the INSERT, conn.commit() and the return
MarkCommit(s) ==
    LET l == loc[s]
    IN  /\ pc[s] = "selected"
        /\ l.existing # 0 \/ nextAttId <= MaxRecords
        /\ attendance' = MarkWrite(attendance, nextAttId, l.existing,
                                   l.student_id, l.subject_id, l.date,
                                   l.time, l.status, l.sync)
        /\ nextAttId' = IF l.existing # 0 THEN nextAttId ELSE nextAttId + 1
        /\ lastMark' = RecordMark(lastMark, l.student_id, l.subject_id,
                                  l.date, l.time, l.status)
        /\ ret' = [RetOf("mark") EXCEPT
                     !.student_id = l.student_id,
                     !.subject_id = l.subject_id,
                     !.date = l.date, !.sync = l.sync,
                     !.existed = (l.existing # 0)]
        /\ pc' = [pc EXCEPT ![s] = "idle"]
        /\ loc' = [loc EXCEPT ![s] = NoLoc]
        /\ UNCHANGED <<students, subjects, nextStudentId, nextSubjectId,
                       today>>

\* pages/2_Take_Attendance.py, webcam loop and uploaded image:
\* db.mark_attendance(face_id, selected_subject_id, "present", False)
SessionSelect ==
    \E s \in Sessions, face_id \in students,
       selected_subject_id \in subjects, current_time \in Times :
        MarkSelect(s, face_id, selected_subject_id, "present", FALSE,
                   current_time)

SessionCommit == \E s \in Sessions : MarkCommit(s)

NextConc ==
    \/ add_student /\ UNCHANGED faceVars /\ UNCHANGED pageVars
    \/ add_subject /\ UNCHANGED faceVars /\ UNCHANGED pageVars
    \/ SessionSelect /\ UNCHANGED faceVars /\ UNCHANGED pageVars
    \/ SessionCommit /\ UNCHANGED faceVars /\ UNCHANGED pageVars

SpecConc == Init /\ [][NextConc]_vars

\* ============================================ identity store and gallery
FaceCounts == 0..MaxFaces
Rolls == 1..MaxRolls
Semesters == 1..MaxSemester
Sources == {"Upload Image", "Capture from Webcam"}

ledgerRest == <<subjects, nextSubjectId, attendance, nextAttId, today,
                lastMark, ret, pc, loc>>

Max(S) == CHOOSE x \in S : \A y \in S : x >= y

\* a row of table students: roll_no, semester, face_encoding ("None" is NULL)
StudentRow(roll_no, semester, face_encoding) ==
    [roll_no |-> roll_no, semester |-> semester,
     face_encoding |-> face_encoding]

\* table students and its AUTOINCREMENT counter as one value
Store == [students |-> students, info |-> info, next |-> nextStudentId]

\* the table after INSERT INTO students of a row that gets the id `id`
InsertStudent(st, id, row) ==
    [students |-> st.students \cup {id},
     info |-> [s \in st.students \cup {id} |->
                  IF s = id THEN row ELSE st.info[s]],
     next |-> st.next + 1]

\* ----------------------------------- FaceRecognitionUtils.get_face_encoding
\* faces is the number of faces detect_faces finds in the image
\* the variant that takes the first face of several
get_face_encoding_FirstFace(faces) ==
    IF faces = 0
    THEN [face_encoding |-> "None", error |-> "No face detected in the image"]
    ELSE [face_encoding |-> "ones", error |-> "None"]

get_face_encoding(faces) ==
    IF faces = 0
    THEN [face_encoding |-> "None", error |-> "No face detected in the image"]
    ELSE IF faces > 1
    THEN [face_encoding |-> "None",
          error |-> "Multiple faces detected. Please provide an image with a single face."]
    ELSE [face_encoding |-> "ones", error |-> "None"]

\* capture_face_streamlit: the image, or None when no face is detected or
\* get_face_encoding reports an error
capture_face_streamlit(faces) ==
    IF faces = 0 THEN "None"
    ELSE IF get_face_encoding(faces).error # "None" THEN "None"
    ELSE "image"

\* ------------------------------------------------------ Database.add_student
\* the table without AUTOINCREMENT: the new id is the largest rowid plus one
add_student_row_ReuseRowid(st, roll_no, semester, face_encoding) ==
    IF \E s \in st.students : st.info[s].roll_no = roll_no
    THEN [store |-> st, success |-> FALSE, lastrowid |-> 0,
          message |-> "Roll number already exists"]
    ELSE LET id == IF st.students = {} THEN 1 ELSE Max(st.students) + 1
         IN  [store |-> InsertStudent(st, id, StudentRow(roll_no, semester,
                                                          face_encoding)),
              success |-> TRUE, lastrowid |-> id, message |-> ""]

\* the column roll_no without UNIQUE
add_student_row_NoUnique(st, roll_no, semester, face_encoding) ==
    [store |-> InsertStudent(st, st.next, StudentRow(roll_no, semester,
                                                     face_encoding)),
     success |-> TRUE, lastrowid |-> st.next, message |-> ""]

\* INSERT INTO students: roll_no is UNIQUE (sqlite3.IntegrityError), id is
\* AUTOINCREMENT; returns (True, lastrowid) or (False, message)
add_student_row(st, roll_no, semester, face_encoding) ==
    IF \E s \in st.students : st.info[s].roll_no = roll_no
    THEN [store |-> st, success |-> FALSE, lastrowid |-> 0,
          message |-> "Roll number already exists"]
    ELSE [store |-> InsertStudent(st, st.next, StudentRow(roll_no, semester,
                                                          face_encoding)),
          success |-> TRUE, lastrowid |-> st.next, message |-> ""]

\* --------------------------------------------------- Database.update_student
\* UPDATE students SET roll_no, semester [, face_encoding] WHERE id = ?;
\* face_encoding "None" leaves the column as it is
update_student(st, student_id, roll_no, semester, face_encoding) ==
    IF /\ student_id \in st.students
       /\ \E s \in st.students \ {student_id} : st.info[s].roll_no = roll_no
    THEN [store |-> st, success |-> FALSE,
          message |-> "Roll number already exists"]
    ELSE [store |-> [st EXCEPT !.info =
                        [s \in st.students |->
                            IF s = student_id
                            THEN StudentRow(roll_no, semester,
                                     IF face_encoding = "None"
                                     THEN st.info[s].face_encoding
                                     ELSE face_encoding)
                            ELSE st.info[s]]],
          success |-> TRUE, message |-> "Student updated successfully"]

\* DELETE FROM students WHERE id = ?, with the columns of the row
delete_student_row(st, student_id) ==
    [store |-> [st EXCEPT !.students = st.students \ {student_id},
                          !.info = [s \in st.students \ {student_id} |->
                                       st.info[s]]],
     success |-> TRUE, message |-> "Student deleted successfully"]

\* ------------------------------------------- Database.get_all_face_encodings
RECURSIVE FaceRows(_, _)
\* the rows of the ids S in rowid order
FaceRows(st, S) ==
    IF S = {} THEN <<>>
    ELSE LET m == Min(S)
         IN  <<[id |-> m, roll_no |-> st.info[m].roll_no,
                face_encoding |-> st.info[m].face_encoding]>>
             \o FaceRows(st, S \ {m})

\* SELECT ... FROM students WHERE face_encoding IS NOT NULL; readOk = FALSE
\* is the except branch: the statement raised, the method returns []
get_all_face_encodings(st, readOk) ==
    IF readOk
    THEN FaceRows(st, {s \in st.students : st.info[s].face_encoding # "None"})
    ELSE <<>>

\* ----------------------------------- FaceRecognitionUtils.load_known_faces
\* the three lists built from the fetched rows; a name is "name (roll_no)"
GalleryOf(rows) ==
    Gallery([i \in 1..Len(rows) |-> rows[i].face_encoding],
            [i \in 1..Len(rows) |-> rows[i].roll_no],
            [i \in 1..Len(rows) |-> rows[i].id])

\* one whole call: the lists after it and the count it returns
load_known_faces(st, readOk) ==
    LET rows == get_all_face_encodings(st, readOk)
    IN  [gallery |-> GalleryOf(rows), count |-> Len(rows)]

CurrentGallery ==
    Gallery(known_face_encodings, known_face_names, known_face_ids)

SetStore(st) ==
    /\ students' = st.students
    /\ info' = st.info
    /\ nextStudentId' = st.next

SetGallery(g) ==
    /\ known_face_encodings' = g.encodings
    /\ known_face_names' = g.names
    /\ known_face_ids' = g.ids

\* ------------------------------- pages/1_Student_Enrollment.py: the handlers
\* "Enroll Student": the image of the chosen source, get_face_encoding,
\* add_student, and load_known_faces after a successful insert
EnrollSubmit(image_source, faces, roll_no, semester) ==
    LET face_image == IF image_source = "Upload Image" THEN "image"
                      ELSE capture_face_streamlit(faces)
        enc == get_face_encoding(faces)
        called == face_image # "None" /\ enc.error = "None"
        res == add_student_row(Store, roll_no, semester, enc.face_encoding)
        after == IF called THEN res.store ELSE Store
        success == called /\ res.success
    IN  /\ success => nextStudentId <= MaxStudents
        /\ SetStore(after)
        /\ SetGallery(IF success THEN load_known_faces(after, TRUE).gallery
                      ELSE CurrentGallery)
        /\ out' = [op |-> "enroll", faces |-> faces, student_id |-> 0,
                   roll_no |-> roll_no, called |-> called,
                   success |-> success,
                   message |-> IF face_image = "None"
                               THEN "No face image provided"
                               ELSE IF enc.error # "None" THEN enc.error
                               ELSE res.message,
                   before |-> Store]
        /\ UNCHANGED <<deleted, load, seen>>
        /\ UNCHANGED ledgerRest

\* "Update Student": update_student with the form's roll number and semester
UpdateSubmit(student_id, roll_no, semester) ==
    LET res == update_student(Store, student_id, roll_no, semester, "None")
    IN  /\ SetStore(res.store)
        /\ out' = [op |-> "update", faces |-> 1, student_id |-> student_id,
                   roll_no |-> roll_no, called |-> TRUE,
                   success |-> res.success, message |-> res.message,
                   before |-> Store]
        /\ UNCHANGED <<deleted, known_face_encodings, known_face_names,
                       known_face_ids, load, seen>>
        /\ UNCHANGED ledgerRest

\* "Update Face Image": an uploaded image goes on only with exactly one
\* detected face, a captured one only when capture_face_streamlit returns
\* it; then get_face_encoding, update_student with the student's own
\* columns, and load_known_faces after a successful update
FaceUpdateSubmit(image_source, student_id, faces) ==
    LET face_image == IF image_source = "Upload Image"
                      THEN (IF faces = 1 THEN "image" ELSE "None")
                      ELSE capture_face_streamlit(faces)
        enc == get_face_encoding(faces)
        called == face_image # "None" /\ enc.error = "None"
        res == update_student(Store, student_id, info[student_id].roll_no,
                              info[student_id].semester, enc.face_encoding)
        after == IF called THEN res.store ELSE Store
        success == called /\ res.success
    IN  /\ SetStore(after)
        /\ SetGallery(IF success THEN load_known_faces(after, TRUE).gallery
                      ELSE CurrentGallery)
        /\ out' = [op |-> "face_update", faces |-> faces,
                   student_id |-> student_id,
                   roll_no |-> info[student_id].roll_no, called |-> called,
                   success |-> success,
                   message |-> IF face_image = "None"
                               THEN "No face image provided"
                               ELSE IF enc.error # "None" THEN enc.error
                               ELSE res.message,
                   before |-> Store]
        /\ UNCHANGED <<deleted, load, seen>>
        /\ UNCHANGED ledgerRest

\* "Delete Student": delete_student, then load_known_faces
DeleteSubmit(student_id) ==
    LET res == delete_student_row(Store, student_id)
    IN  /\ SetStore(res.store)
        /\ SetGallery(load_known_faces(res.store, TRUE).gallery)
        /\ deleted' = deleted \cup {student_id}
        /\ out' = [op |-> "delete", faces |-> 1, student_id |-> student_id,
                   roll_no |-> info[student_id].roll_no, called |-> TRUE,
                   success |-> res.success, message |-> res.message,
                   before |-> Store]
        /\ UNCHANGED <<load, seen>>
        /\ UNCHANGED ledgerRest

Enroll ==
    \E image_source \in Sources, faces \in FaceCounts, roll_no \in Rolls,
       semester \in Semesters :
        EnrollSubmit(image_source, faces, roll_no, semester)

UpdateDetails ==
    \E student_id \in students, roll_no \in Rolls, semester \in Semesters :
        UpdateSubmit(student_id, roll_no, semester)

UpdateFace ==
    \E image_source \in Sources, student_id \in students,
       faces \in FaceCounts :
        FaceUpdateSubmit(image_source, student_id, faces)

RemoveStudent == \E student_id \in students : DeleteSubmit(student_id)

NextStore ==
    \/ Enroll /\ UNCHANGED pageVars
    \/ UpdateDetails /\ UNCHANGED pageVars
    \/ UpdateFace /\ UNCHANGED pageVars
    \/ RemoveStudent /\ UNCHANGED pageVars

SpecStore == Init /\ [][NextStore]_vars

\* --------------------------------- the store as another page's object sees it
\* Database.add_student called by the enrollment page: the gallery of this
\* object is not reloaded (each page keeps its own FaceRecognitionUtils)
AddStudentRow(roll_no, semester) ==
    LET res == add_student_row(Store, roll_no, semester, "ones")
    IN  /\ res.success
        /\ nextStudentId <= MaxStudents
        /\ SetStore(res.store)
        /\ out' = [op |-> "add_student"]
        /\ UNCHANGED <<deleted, known_face_encodings, known_face_names,
                       known_face_ids, load, seen>>
        /\ UNCHANGED ledgerRest

\* Database.delete_student called by the enrollment page
DeleteStudentRow(student_id) ==
    /\ SetStore(delete_student_row(Store, student_id).store)
    /\ deleted' = deleted \cup {student_id}
    /\ out' = [op |-> "delete_student"]
    /\ UNCHANGED <<known_face_encodings, known_face_names, known_face_ids,
                   load, seen>>
    /\ UNCHANGED ledgerRest

\* the gallery and the matcher do not read the semester
StoreEnroll == \E roll_no \in Rolls : AddStudentRow(roll_no, Min(Semesters))

StoreDelete == \E student_id \in students : DeleteStudentRow(student_id)

\* ------------------------------------ FaceRecognitionUtils.recognize_faces
\* distances and tolerances in tenths; the slider of the attendance page
\* goes from 0.1 to 1.0 and starts at 0.6
Distances == {0, 6, 9}
Tolerances == {5, 6}

\* an image is the list of the faces detect_faces finds in it; a face is
\* given by its distance to each entry of the gallery
Images ==
    UNION {[1..n -> [1..Len(known_face_ids) -> Distances]] : n \in FaceCounts}

\* the entries of the gallery nearest to the face
Nearest(face) ==
    {k \in DOMAIN face : \A j \in DOMAIN face : face[k] <= face[j]}

\* a matcher that takes the nearest entry of the gallery within tolerance
recognize_faces_Nearest(image, tolerance) ==
    LET match(face) == IF Nearest(face) = {} THEN 0
                       ELSE LET k == Min(Nearest(face))
                            IN  IF face[k] <= tolerance
                                THEN known_face_ids[k] ELSE 0
    IN  [face_locations |-> Len(image),
         face_names |-> [i \in 1..Len(image) |->
                            IF match(image[i]) = 0 THEN "Unknown"
                            ELSE "Student"],
         face_ids |-> [i \in 1..Len(image) |-> match(image[i])]]

\* the placeholder of the source: "Student" and id 1 for every detected face
recognize_faces(image, tolerance) ==
    [face_locations |-> Len(image),
     face_names |-> [i \in 1..Len(image) |-> "Student"],
     face_ids |-> [i \in 1..Len(image) |-> 1]]

\* FaceRecognitionUtils(): the attendance page builds its object once
\* (st.cache_resource); __init__ ends with load_known_faces
FaceUtilsInit ==
    /\ SetGallery(load_known_faces(Store, TRUE).gallery)
    /\ out' = [op |-> "init"]
    /\ UNCHANGED <<students, info, nextStudentId, deleted, load, seen>>
    /\ UNCHANGED ledgerRest

\* recognize_faces on one image at two tolerances
RecognizeAt(image, t1, t2) ==
    /\ out' = [op |-> "recognize", image |-> image, t1 |-> t1, t2 |-> t2,
               r1 |-> recognize_faces(image, t1),
               r2 |-> recognize_faces(image, t2)]
    /\ UNCHANGED <<students, info, nextStudentId, deleted,
                   known_face_encodings, known_face_names, known_face_ids,
                   load, seen>>
    /\ UNCHANGED ledgerRest

Recognize ==
    \E image \in Images, t1 \in Tolerances, t2 \in Tolerances :
        RecognizeAt(image, t1, t2)

NextMatch ==
    \/ StoreEnroll /\ UNCHANGED pageVars
    \/ StoreDelete /\ UNCHANGED pageVars
    \/ FaceUtilsInit /\ UNCHANGED pageVars
    \/ Recognize /\ UNCHANGED pageVars

SpecMatch == Init /\ [][NextMatch]_vars

\* ---------------- SpecGallery: load_known_faces line by line, and a reader
\* the object is shared by the sessions of a page (st.cache_resource): one
\* session runs load_known_faces while another reads the lists
\* students = self.db.get_all_face_encodings()
LoadBegin(readOk) ==
    /\ load.pc = "idle"
    /\ load' = [pc |-> "clear_encodings",
                students |-> get_all_face_encodings(Store, readOk),
                readOk |-> readOk, snapshot |-> CurrentGallery]
    /\ UNCHANGED <<students, info, nextStudentId, deleted,
                   known_face_encodings, known_face_names, known_face_ids,
                   seen, out>>
    /\ UNCHANGED ledgerRest

\* self.known_face_encodings = []
LoadClearEncodings ==
    /\ load.pc = "clear_encodings"
    /\ known_face_encodings' = <<>>
    /\ load' = [load EXCEPT !.pc = "clear_names"]
    /\ UNCHANGED <<students, info, nextStudentId, deleted, known_face_names,
                   known_face_ids, seen, out>>
    /\ UNCHANGED ledgerRest

\* self.known_face_names = []
LoadClearNames ==
    /\ load.pc = "clear_names"
    /\ known_face_names' = <<>>
    /\ load' = [load EXCEPT !.pc = "clear_ids"]
    /\ UNCHANGED <<students, info, nextStudentId, deleted,
                   known_face_encodings, known_face_ids, seen, out>>
    /\ UNCHANGED ledgerRest

\* self.known_face_ids = []
LoadClearIds ==
    /\ load.pc = "clear_ids"
    /\ known_face_ids' = <<>>
    /\ load' = [load EXCEPT !.pc = "append_encoding"]
    /\ UNCHANGED <<students, info, nextStudentId, deleted,
                   known_face_encodings, known_face_names, seen, out>>
    /\ UNCHANGED ledgerRest

\* the student of the running iteration of `for student in students`
LoadIndex == Len(known_face_ids) + 1

\* self.known_face_encodings.append(student['face_encoding'])
LoadAppendEncoding ==
    /\ load.pc = "append_encoding"
    /\ LoadIndex <= Len(load.students)
    /\ known_face_encodings' =
           Append(known_face_encodings,
                  load.students[LoadIndex].face_encoding)
    /\ load' = [load EXCEPT !.pc = "append_name"]
    /\ UNCHANGED <<students, info, nextStudentId, deleted, known_face_names,
                   known_face_ids, seen, out>>
    /\ UNCHANGED ledgerRest

\* self.known_face_names.append(f"{student['name']} ({student['roll_no']})")
LoadAppendName ==
    /\ load.pc = "append_name"
    /\ known_face_names' =
           Append(known_face_names, load.students[LoadIndex].roll_no)
    /\ load' = [load EXCEPT !.pc = "append_id"]
    /\ UNCHANGED <<students, info, nextStudentId, deleted,
                   known_face_encodings, known_face_ids, seen, out>>
    /\ UNCHANGED ledgerRest

\* self.known_face_ids.append(student['id'])
LoadAppendId ==
    /\ load.pc = "append_id"
    /\ known_face_ids' = Append(known_face_ids, load.students[LoadIndex].id)
    /\ load' = [load EXCEPT !.pc = "append_encoding"]
    /\ UNCHANGED <<students, info, nextStudentId, deleted,
                   known_face_encodings, known_face_names, seen, out>>
    /\ UNCHANGED ledgerRest

\* return len(students): a count and nothing else
LoadReturn ==
    /\ load.pc = "append_encoding"
    /\ LoadIndex > Len(load.students)
    /\ out' = [op |-> "load", readOk |-> load.readOk,
               count |-> Len(load.students), error |-> FALSE,
               snapshot |-> load.snapshot]
    /\ load' = NoLoad
    /\ UNCHANGED <<students, info, nextStudentId, deleted,
                   known_face_encodings, known_face_names, known_face_ids,
                   seen>>
    /\ UNCHANGED ledgerRest

\* another session reads the lists of the object
Observe ==
    /\ seen' = [op |-> "read", gallery |-> CurrentGallery,
                reloading |-> (load.pc # "idle"),
                old |-> load.snapshot, new |-> GalleryOf(load.students)]
    /\ UNCHANGED <<students, info, nextStudentId, deleted,
                   known_face_encodings, known_face_names, known_face_ids,
                   load, out>>
    /\ UNCHANGED ledgerRest

\* "Refresh Face Encodings" of the settings page calls load_known_faces
LoadCall == \E readOk \in BOOLEAN : LoadBegin(readOk)

NextGallery ==
    \/ StoreEnroll /\ UNCHANGED pageVars
    \/ StoreDelete /\ UNCHANGED pageVars
    \/ LoadCall /\ UNCHANGED pageVars
    \/ LoadClearEncodings /\ UNCHANGED pageVars
    \/ LoadClearNames /\ UNCHANGED pageVars
    \/ LoadClearIds /\ UNCHANGED pageVars
    \/ LoadAppendEncoding /\ UNCHANGED pageVars
    \/ LoadAppendName /\ UNCHANGED pageVars
    \/ LoadAppendId /\ UNCHANGED pageVars
    \/ LoadReturn /\ UNCHANGED pageVars
    \/ Observe /\ UNCHANGED pageVars

SpecGallery == Init /\ [][NextGallery]_vars

\* ------------------------------------------ Database.get_attendance_stats
\* a bound parameter with its Python type: date_filter is a str, subject_id
\* and semester are int; 0 stands for None (a filter that is not given)
StrParam(v) == <<"str", v>>

IntParam(v) == <<"int", v>>

\* params in the order the conditions are appended (branch and section are
\* not given)
StatsParams(date_filter, subject_id, semester) ==
    (IF date_filter # 0 THEN <<StrParam(date_filter)>> ELSE <<>>)
    \o (IF subject_id # 0 THEN <<IntParam(subject_id)>> ELSE <<>>)
    \o (IF semester # 0 THEN <<IntParam(semester)>> ELSE <<>>)

\* [p for p in params if p in [branch, semester, section]]
TotalParams(params, semester) ==
    SelectSeq(params, LAMBDA p : semester # 0 /\ p = IntParam(semester))

\* the number of "?" of total_query
TotalPlaceholders(semester) == IF semester # 0 THEN 1 ELSE 0

\* the present query without the join: rows of deleted students count
PresentRows_NoJoin(att, st, date_filter, subject_id, semester) ==
    {r \in att : /\ date_filter # 0 => r.date = date_filter
                 /\ subject_id # 0 => r.subject_id = subject_id
                 /\ semester # 0 =>
                        /\ r.student_id \in st.students
                        /\ st.info[r.student_id].semester = semester
                 /\ r.status = "present"}

\* attendance a JOIN students s WHERE the conditions AND a.status = 'present'
PresentRows(att, st, date_filter, subject_id, semester) ==
    {r \in att : /\ r.student_id \in st.students
                 /\ date_filter # 0 => r.date = date_filter
                 /\ subject_id # 0 => r.subject_id = subject_id
                 /\ semester # 0 => st.info[r.student_id].semester = semester
                 /\ r.status = "present"}

\* total, present and absent of the returned dict; the except branch (a
\* query that raises) returns zeros
get_attendance_stats(att, st, date_filter, subject_id, semester) ==
    LET params == StatsParams(date_filter, subject_id, semester)
        raised == Len(TotalParams(params, semester))
                      # TotalPlaceholders(semester)
        total_students ==
            Cardinality({s \in st.students :
                            semester # 0 => st.info[s].semester = semester})
        present_students ==
            Cardinality({r.student_id :
                            r \in PresentRows(att, st, date_filter,
                                              subject_id, semester)})
    IN  IF raised
        THEN [total |-> 0, present |-> 0, absent |-> 0]
        ELSE [total |-> total_students, present |-> present_students,
              absent |-> total_students - present_students]

\* a get_attendance_stats call
GetStats(date_filter, subject_id, semester) ==
    /\ out' = [op |-> "stats", date_filter |-> date_filter,
               subject_id |-> subject_id, semester |-> semester,
               stats |-> get_attendance_stats(attendance, Store, date_filter,
                                              subject_id, semester)]
    /\ UNCHANGED <<students, info, nextStudentId, deleted,
                   known_face_encodings, known_face_names, known_face_ids,
                   load, seen>>
    /\ UNCHANGED ledgerRest

StatsEnroll ==
    \E roll_no \in Rolls, semester \in Semesters :
        AddStudentRow(roll_no, semester)

\* mark_attendance as the attendance page calls it
StatsMark ==
    \E student_id \in students, subject_id \in subjects,
       current_time \in Times :
        mark_attendance(student_id, subject_id, "present", FALSE,
                        current_time)

StatsQuery ==
    \E date_filter \in 0..MaxDate, subject_id \in 0..MaxSubjects,
       semester \in 0..MaxSemester :
        GetStats(date_filter, subject_id, semester)

NextStats ==
    \/ StatsEnroll /\ UNCHANGED pageVars
    \/ StoreDelete /\ UNCHANGED pageVars
    \/ add_subject /\ UNCHANGED faceVars /\ UNCHANGED pageVars
    \/ StatsMark /\ UNCHANGED faceVars /\ UNCHANGED pageVars
    \/ StatsQuery /\ UNCHANGED pageVars

SpecStats == Init /\ [][NextStats]_vars

\* ================================== the attendance page: webcam and upload
\* the ledger as the handlers of the page see and change it
Ledger ==
    [attendance |-> attendance, nextAttId |-> nextAttId,
     lastMark |-> lastMark, ret |-> ret,
     recognized |-> recognized_students, marked |-> {}, raised |-> FALSE]

\* db.mark_attendance(face_id, selected_subject_id, "present", False) of the
\* page, on the ledger w; the clock does not advance within one handler
PageMark(w, face_id, subject_id, current_time) ==
    LET existing == SelectExisting(w.attendance, face_id, subject_id, today)
    IN  [w EXCEPT
           !.attendance = MarkWrite(w.attendance, w.nextAttId, existing,
                                    face_id, subject_id, today, current_time,
                                    "present", FALSE),
           !.nextAttId = IF existing # 0 THEN @ ELSE @ + 1,
           !.lastMark = RecordMark(w.lastMark, face_id, subject_id, today,
                                   current_time, "present"),
           !.ret = [RetOf("mark") EXCEPT
                      !.student_id = face_id, !.subject_id = subject_id,
                      !.date = today, !.existed = (existing # 0),
                      !.oldSynced = (\E r \in w.attendance :
                                       r.id = existing /\ r.synced),
                      !.changed = (\E r \in w.attendance :
                                     /\ r.id = existing
                                     /\ r.time # current_time
                                     /\ r.status # "present")],
           !.marked = @ \cup {face_id}]

\* the for loop of the webcam mode: a face_id not yet recognized is marked
\* and added to recognized_students; db.get_student of an id that is not in
\* the store is None and student['name'] raises TypeError
RECURSIVE WebcamMarks(_, _, _, _, _)
WebcamMarks(w, face_ids, i, subject_id, current_time) ==
    IF i > Len(face_ids) \/ w.raised THEN w
    ELSE LET face_id == face_ids[i]
             m == PageMark(w, face_id, subject_id, current_time)
         IN  IF face_id # 0 /\ face_id \notin w.recognized
             THEN WebcamMarks([m EXCEPT !.recognized = @ \cup {face_id},
                                        !.raised = face_id \notin students],
                              face_ids, i + 1, subject_id, current_time)
             ELSE WebcamMarks(w, face_ids, i + 1, subject_id, current_time)

\* the for loop of the upload mode: every face_id that is not 0 is marked
RECURSIVE UploadMarks(_, _, _, _, _)
UploadMarks(w, face_ids, i, subject_id, current_time) ==
    IF i > Len(face_ids) THEN w
    ELSE LET face_id == face_ids[i]
         IN  IF face_id # 0
             THEN UploadMarks(PageMark(w, face_id, subject_id, current_time),
                              face_ids, i + 1, subject_id, current_time)
             ELSE UploadMarks(w, face_ids, i + 1, subject_id, current_time)

\* the ledger after a handler of the page
SetLedger(w) ==
    /\ w.nextAttId <= MaxRecords + 1
    /\ attendance' = w.attendance
    /\ nextAttId' = w.nextAttId
    /\ lastMark' = w.lastMark
    /\ ret' = w.ret

\* what a handler of the page recognized and marked: unheld are the face ids
\* that no entry of the gallery holds, missing the marked ids that are not
\* in the store, empty tells that the gallery had no entry
Pipeline(op, face_ids, w) ==
    LET held == {known_face_ids[k] : k \in DOMAIN known_face_ids}
    IN  [op |-> op, marked |-> w.marked,
         unheld |-> {face_ids[i] : i \in DOMAIN face_ids} \ held,
         missing |-> w.marked \ students,
         empty |-> (known_face_ids = <<>>)]

\* the finally clause of the webcam loop: cap.release() on every exit
ExitCap_BreakOnly(why) == IF why = "exception" THEN "open" ELSE "released"

ExitCap(why) == "released"

\* leaving the try statement: finally, then the script of the page ends
ExitLoop(why) ==
    /\ cap' = ExitCap(why)
    /\ run' = [run EXCEPT !.pc = "page", !.frame = <<>>, !.exit = why]

storeVars == <<students, info, nextStudentId, deleted>>

galleryVars == <<known_face_encodings, known_face_names, known_face_ids,
                 load, seen>>

\* "Start Capturing": the flag is set, the recognized set emptied, st.rerun()
StartCapturing ==
    /\ run.pc = "page"
    /\ ~capture_active
    /\ capture_active' = TRUE
    /\ recognized_students' = {}
    /\ run' = NoRun
    /\ UNCHANGED <<cap, out, branch, stat>>
    /\ UNCHANGED <<storeVars, galleryVars, ledgerRest, callVars>>

\* "Stop Capturing": the stop signal
StopCapturing ==
    /\ capture_active
    /\ capture_active' = FALSE
    /\ UNCHANGED <<recognized_students, cap, run, out, branch, stat>>
    /\ UNCHANGED <<storeVars, galleryVars, ledgerRest, callVars>>

\* the page while capture_active: without a subject the flag is reset;
\* cv2.VideoCapture(0); a handle that is not opened resets the flag
OpenCamera(selected_subject_id, opened) ==
    /\ run.pc = "page"
    /\ capture_active
    /\ IF selected_subject_id = 0 \/ ~opened
       THEN /\ capture_active' = FALSE
            /\ UNCHANGED <<cap, run>>
       ELSE /\ cap' = "open"
            /\ run' = [NoRun EXCEPT !.pc = "while",
                                    !.subject_id = selected_subject_id]
            /\ UNCHANGED capture_active
    /\ UNCHANGED <<recognized_students, out, branch, stat>>
    /\ UNCHANGED <<storeVars, galleryVars, ledgerRest, callVars>>

\* while st.session_state.capture_active
WhileCheck ==
    /\ run.pc = "while"
    /\ IF capture_active
       THEN run' = [run EXCEPT !.pc = "read"] /\ UNCHANGED cap
       ELSE ExitLoop("stop")
    /\ UNCHANGED <<capture_active, recognized_students, out, branch, stat>>
    /\ UNCHANGED <<storeVars, galleryVars, ledgerRest, callVars>>

\* ret, frame = cap.read(); if not ret: break
ReadFrame(ok, frame) ==
    /\ run.pc = "read"
    /\ IF ok
       THEN /\ run' = [run EXCEPT
                         !.pc = "process", !.frame = frame,
                         !.late = IF capture_active THEN @
                                  ELSE Min({@ + 1, MaxLate})]
            /\ UNCHANGED cap
       ELSE ExitLoop("read_failed")
    /\ UNCHANGED <<capture_active, recognized_students, out, branch, stat>>
    /\ UNCHANGED <<storeVars, galleryVars, ledgerRest, callVars>>

\* recognize_faces, draw and show the frame, the for loop over the faces;
\* raises: an exception of the drawing and display calls before the loop
ProcessFrame(tolerance, current_time, raises) ==
    LET face_ids == recognize_faces(run.frame, tolerance).face_ids
        w == IF raises THEN [Ledger EXCEPT !.raised = TRUE]
             ELSE WebcamMarks(Ledger, face_ids, 1, run.subject_id,
                              current_time)
    IN  /\ run.pc = "process"
        /\ SetLedger(w)
        /\ recognized_students' = w.recognized
        /\ out' = Pipeline("webcam", face_ids, w)
        /\ IF w.raised
           THEN ExitLoop("exception")
           ELSE run' = [run EXCEPT !.pc = "sleep"] /\ UNCHANGED cap
        /\ UNCHANGED <<capture_active, subjects, nextSubjectId, today, pc,
                       loc, branch, stat>>
        /\ UNCHANGED <<storeVars, galleryVars, callVars>>

\* time.sleep(0.1); if not st.session_state.capture_active: break
SleepCheck ==
    /\ run.pc = "sleep"
    /\ IF capture_active
       THEN run' = [run EXCEPT !.pc = "while"] /\ UNCHANGED cap
       ELSE ExitLoop("stop")
    /\ UNCHANGED <<capture_active, recognized_students, out, branch, stat>>
    /\ UNCHANGED <<storeVars, galleryVars, ledgerRest, callVars>>

\* the upload mode: recognize_faces on the uploaded image, then the marks
UploadImage(image, selected_subject_id, tolerance, current_time) ==
    LET face_ids == recognize_faces(image, tolerance).face_ids
        w == UploadMarks(Ledger, face_ids, 1, selected_subject_id,
                         current_time)
    IN  /\ run.pc = "page"
        /\ ~capture_active
        /\ SetLedger(w)
        /\ out' = Pipeline("upload", face_ids, w)
        /\ UNCHANGED <<capture_active, recognized_students, cap, run,
                       subjects, nextSubjectId, today, pc, loc, branch,
                       stat>>
        /\ UNCHANGED <<storeVars, galleryVars, callVars>>

\* the frames of the camera and the uploaded images: the placeholder matcher
\* reads the number of faces only, so one image per number of faces
Frames ==
    {image \in Images :
        \A i \in DOMAIN image : \A k \in DOMAIN image[i] :
            image[i][k] = Min(Distances)}

\* an enrollment while the attendance page is in use; the page reads no
\* column but the id, so the roll numbers are given in the order of the ids
PageEnroll ==
    \E roll_no \in Rolls :
        roll_no = Min({nextStudentId, MaxRolls})
            /\ AddStudentRow(roll_no, Min(Semesters))

\* datetime.now() of the page's marks: one session, one instant
PageTimes == {Min(Times)}

\* the subject selector: a subject of the table, None without subjects
Selectable == IF subjects = {} THEN {0} ELSE subjects

NextCapture ==
    \/ PageEnroll /\ UNCHANGED pageVars
    \/ StoreDelete /\ UNCHANGED pageVars
    \/ add_subject /\ UNCHANGED faceVars /\ UNCHANGED pageVars
    \/ FaceUtilsInit /\ UNCHANGED pageVars
    \/ StartCapturing
    \/ StopCapturing
    \/ \E selected_subject_id \in Selectable, opened \in BOOLEAN :
          OpenCamera(selected_subject_id, opened)
    \/ WhileCheck
    \/ \E ok \in BOOLEAN, frame \in Frames : ReadFrame(ok, frame)
    \/ \E tolerance \in Tolerances, current_time \in PageTimes,
          raises \in BOOLEAN :
          ProcessFrame(tolerance, current_time, raises)
    \/ SleepCheck
    \/ \E image \in Frames, selected_subject_id \in subjects,
          tolerance \in Tolerances, current_time \in PageTimes :
          UploadImage(image, selected_subject_id, tolerance, current_time)

SpecCapture == Init /\ [][NextCapture]_vars

\* ------------------------- get_attendance_stats, one query after the other
Branches == {"CSE", "ECE"}

capVars == <<capture_active, recognized_students, cap, run>>

\* add_student of the enrollment page, with the branch of the form
SnapEnroll ==
    \E b \in Branches :
        /\ AddStudentRow(Min({nextStudentId, MaxRolls}), Min(Semesters))
        /\ branch' = [s \in students \cup {nextStudentId} |->
                         IF s = nextStudentId THEN b ELSE branch[s]]
        /\ UNCHANGED <<capVars, stat, callVars>>

\* delete_student of the enrollment page
SnapDelete ==
    \E student_id \in students :
        /\ DeleteStudentRow(student_id)
        /\ branch' = [s \in students \ {student_id} |-> branch[s]]
        /\ UNCHANGED <<capVars, stat, callVars>>

\* COUNT(DISTINCT a.student_id) of the present query
PresentCount(att, st, date_filter, subject_id) ==
    Cardinality({r.student_id :
                    r \in PresentRows(att, st, date_filter, subject_id, 0)})

\* SELECT s.branch, COUNT(DISTINCT a.student_id) ... GROUP BY s.branch
BranchCounts(att, st, br, date_filter, subject_id) ==
    LET present == {r.student_id :
                       r \in PresentRows(att, st, date_filter, subject_id, 0)}
    IN  [b \in {br[s] : s \in present} |->
            Cardinality({s \in present : br[s] = b})]

\* connect, the conditions and the total query (no student filter given)
StatsTotalQuery(date_filter, subject_id) ==
    /\ stat.pc = "idle"
    /\ stat' = [NoStat EXCEPT !.pc = "present", !.date_filter = date_filter,
                              !.subject_id = subject_id,
                              !.total = Cardinality(students)]
    /\ UNCHANGED <<capVars, branch, out>>
    /\ UNCHANGED <<storeVars, galleryVars, ledgerRest, callVars>>

\* the present query and absent_students = total_students - present_students
StatsPresentQuery ==
    /\ stat.pc = "present"
    /\ stat' = [stat EXCEPT !.pc = "branch",
                            !.present = PresentCount(attendance, Store,
                                                     stat.date_filter,
                                                     stat.subject_id)]
    /\ UNCHANGED <<capVars, branch, out>>
    /\ UNCHANGED <<storeVars, galleryVars, ledgerRest, callVars>>

\* the branch query
StatsBranchQuery ==
    /\ stat.pc = "branch"
    /\ stat' = [stat EXCEPT !.pc = "subject",
                            !.by_branch = BranchCounts(attendance, Store,
                                                       branch,
                                                       stat.date_filter,
                                                       stat.subject_id)]
    /\ UNCHANGED <<capVars, branch, out>>
    /\ UNCHANGED <<storeVars, galleryVars, ledgerRest, callVars>>

\* the subject query, the returned dict and close
StatsSubjectQuery ==
    /\ stat.pc = "subject"
    /\ out' = [op |-> "stats", date_filter |-> stat.date_filter,
               subject_id |-> stat.subject_id, semester |-> 0,
               stats |-> [total |-> stat.total, present |-> stat.present,
                          absent |-> stat.total - stat.present],
               attendance_by_branch |-> stat.by_branch,
               attendance_by_subject |->
                   IF stat.subject_id \in subjects
                   THEN PresentCount(attendance, Store, stat.date_filter,
                                     stat.subject_id)
                   ELSE 0]
    /\ stat' = NoStat
    /\ UNCHANGED <<capVars, branch>>
    /\ UNCHANGED <<storeVars, galleryVars, ledgerRest, callVars>>

\* the attendance page: get_attendance_stats(date_filter=today,
\* subject_id=selected_subject_id)
StatsCall ==
    \E selected_subject_id \in subjects :
        StatsTotalQuery(today, selected_subject_id)

\* mark_attendance of the attendance page in another session
SnapMark ==
    \E student_id \in students, subject_id \in subjects,
       current_time \in PageTimes :
        mark_attendance(student_id, subject_id, "present", FALSE,
                        current_time)

NextSnap ==
    \/ SnapEnroll
    \/ SnapDelete
    \/ add_subject /\ UNCHANGED faceVars /\ UNCHANGED pageVars
    \/ SnapMark /\ UNCHANGED faceVars /\ UNCHANGED pageVars
    \/ StatsCall
    \/ StatsPresentQuery
    \/ StatsBranchQuery
    \/ StatsSubjectQuery

SpecSnap == Init /\ [][NextSnap]_vars

\* --------------------- sync_pending_attendance, one database call at a time
\* the for loop after a report that failed: the next group
AfterFailure_Retry(i) == i

AfterFailure(i) == i + 1

\* status and time of the rows of a report, by id
Contents(group) ==
    [id \in {r.id : r \in group} |->
        LET r == CHOOSE x \in group : x.id = id IN <<r.status, r.time>>]

\* f overwritten by g
Overwrite(f, g) ==
    [x \in DOMAIN f \cup DOMAIN g |-> IF x \in DOMAIN g THEN g[x] ELSE f[x]]

notRec == <<capture_active, recognized_students, cap, run, branch, stat, conn,
            connections, calls>>

\* get_unsynced_attendance and groupby; without pending rows the call returns
ReconRead ==
    LET unsynced == get_unsynced_attendance(attendance, students, subjects)
        grouped == groupby(unsynced)
    IN  /\ rec.pc = "idle"
        /\ rec' = IF unsynced = {}
                  THEN [rec EXCEPT !.groups = <<>>, !.attempts = <<>>]
                  ELSE [rec EXCEPT !.pc = "send", !.groups = grouped, !.i = 1,
                                   !.attempts = [j \in 1..Len(grouped) |-> 0]]
        /\ UNCHANGED <<students, nextStudentId, info, deleted, out>>
        /\ UNCHANGED <<galleryVars, ledgerRest, notRec>>

\* send_attendance_report(group) up to the answer of the transport
ReconSend(outcome) ==
    /\ rec.pc = "send"
    /\ rec.i <= Len(rec.groups)
    /\ rec' = IF outcome.success
              THEN [rec EXCEPT
                      !.pc = "mark",
                      !.attempts[rec.i] = Min({@ + 1, MaxAttempts}),
                      !.todo = {r.id : r \in rec.groups[rec.i]},
                      !.delivered = Overwrite(@, Contents(rec.groups[rec.i]))]
              ELSE [rec EXCEPT
                      !.attempts[rec.i] = Min({@ + 1, MaxAttempts}),
                      !.i = AfterFailure(rec.i)]
    /\ UNCHANGED <<students, nextStudentId, info, deleted, out>>
    /\ UNCHANGED <<galleryVars, ledgerRest, notRec>>

\* one self.db.mark_attendance_synced(row["id"]) of the loop over the rows
ReconMark ==
    LET id == Min(rec.todo)
    IN  /\ rec.pc = "mark"
        /\ attendance' = mark_attendance_synced(attendance, id, TRUE)
        /\ rec' = IF rec.todo = {id}
                  THEN [rec EXCEPT !.pc = "send", !.todo = {}, !.i = @ + 1]
                  ELSE [rec EXCEPT !.todo = @ \ {id}]
        /\ UNCHANGED <<students, nextStudentId, info, deleted, out>>
        /\ UNCHANGED <<subjects, nextSubjectId, nextAttId, today, lastMark,
                       ret, pc, loc>>
        /\ UNCHANGED <<galleryVars, notRec>>

\* the end of the for loop and the return
ReconReturn ==
    /\ rec.pc = "send"
    /\ rec.i > Len(rec.groups)
    /\ rec' = [rec EXCEPT !.pc = "idle"]
    /\ UNCHANGED <<students, nextStudentId, info, deleted, out>>
    /\ UNCHANGED <<galleryVars, ledgerRest, notRec>>

ReconDeliver == \E outcome \in Transport : ReconSend(outcome)

\* mark_attendance of the attendance page in another session
ReconMarkAttendance ==
    \E student_id \in students, subject_id \in subjects,
       current_time \in Times :
        mark_attendance(student_id, subject_id, "present", FALSE,
                        current_time)

\* the steps of a sync_pending_attendance call that is under way
ReconStep == ReconDeliver \/ ReconMark \/ ReconReturn

NextRecon ==
    \/ add_student /\ UNCHANGED faceVars /\ UNCHANGED pageVars
    \/ add_subject /\ UNCHANGED faceVars /\ UNCHANGED pageVars
    \/ ReconMarkAttendance /\ UNCHANGED faceVars /\ UNCHANGED pageVars
    \/ ReconRead
    \/ ReconDeliver
    \/ ReconMark
    \/ ReconReturn

SpecRecon == Init /\ [][NextRecon]_vars

\* the thread that runs sync_pending_attendance is not stopped: a call that
\* is under way takes its next step
SpecReconFair == SpecRecon /\ WF_vars(ReconStep)

\* ------------------- the connection of the shared Database object (SpecConn)
\* every Streamlit session runs its script in a thread of its own and all
\* sessions share the one Database object of st.cache_resource; a sqlite3
\* connection raises ProgrammingError when a thread that did not create it
\* uses or closes it (check_same_thread)
notConn == <<capture_active, recognized_students, cap, run, branch, stat, rec>>

\* the call of session s ends: its local variables are gone
EndCall(s) == calls' = [calls EXCEPT ![s] = NoCall]

\* connect(): self.conn = sqlite3.connect(self.db_path)
ConnOpen(s) ==
    /\ calls[s].pc = "idle"
    /\ Len(connections) < MaxConns
    /\ connections' = Append(connections, [thread |-> s, open |-> TRUE])
    /\ conn' = Len(connections) + 1
    /\ calls' = [calls EXCEPT ![s] = [pc |-> "opened", conn |-> 0,
                                       own |-> Len(connections) + 1]]

\* connect(): return self.conn, bound to the local conn of the method
ConnReturn(s) ==
    /\ calls[s].pc = "opened"
    /\ calls' = [calls EXCEPT ![s].pc = "cursor", ![s].conn = conn]
    /\ UNCHANGED <<conn, connections>>

\* cursor = conn.cursor(), before the try statement: on None, on a closed
\* connection and on a connection of another thread it raises and the method
\* ends without reaching finally
Cursor(s) ==
    LET c == calls[s].conn
    IN  /\ calls[s].pc = "cursor"
        /\ IF c # 0 /\ connections[c].thread = s /\ connections[c].open
           THEN calls' = [calls EXCEPT ![s].pc = "try"]
           ELSE EndCall(s)
        /\ UNCHANGED <<conn, connections>>

\* the statements of the try block and conn.commit()
Statements(s) ==
    /\ calls[s].pc = "try"
    /\ calls' = [calls EXCEPT ![s].pc = "finally"]
    /\ UNCHANGED <<conn, connections>>

\* close(): if self.conn: self.conn.close(); a connection of another thread
\* raises out of the finally clause
CloseCall(s) ==
    /\ calls[s].pc = "finally"
    /\ IF conn = 0
       THEN EndCall(s) /\ UNCHANGED connections
       ELSE IF connections[conn].thread = s
            THEN /\ connections' = [connections EXCEPT ![conn].open = FALSE]
                 /\ calls' = [calls EXCEPT ![s].pc = "clear"]
            ELSE EndCall(s) /\ UNCHANGED connections
    /\ UNCHANGED conn

\* close(): self.conn = None, and the return of the method
CloseClear(s) ==
    /\ calls[s].pc = "clear"
    /\ conn' = 0
    /\ EndCall(s)
    /\ UNCHANGED connections

\* the sessions call a method of the shared object, as mark_attendance
NextConn ==
    \/ \E s \in Sessions :
          ConnOpen(s) /\ UNCHANGED <<ledgerVars, faceVars, notConn>>
    \/ \E s \in Sessions :
          ConnReturn(s) /\ UNCHANGED <<ledgerVars, faceVars, notConn>>
    \/ \E s \in Sessions :
          Cursor(s) /\ UNCHANGED <<ledgerVars, faceVars, notConn>>
    \/ \E s \in Sessions :
          Statements(s) /\ UNCHANGED <<ledgerVars, faceVars, notConn>>
    \/ \E s \in Sessions :
          CloseCall(s) /\ UNCHANGED <<ledgerVars, faceVars, notConn>>
    \/ \E s \in Sessions :
          CloseClear(s) /\ UNCHANGED <<ledgerVars, faceVars, notConn>>

SpecConn == Init /\ [][NextConn]_vars

\* ================================================================ claims
RetRows == RowsOfKey(attendance, ret.student_id, ret.subject_id, ret.date)

Delivered == BatchIds(ret.batches, TRUE)

Failed == BatchIds(ret.batches, FALSE)

FailedBatchSeq == SelectSeq(ret.batches, LAMBDA b : ~b.success)

\* C1: whatever calls were made, every key that mark_attendance was called
\* for has exactly one row, and that row carries the status and the time of
\* the last call for the key.
C1_OneRecordLastCall ==
    \A m \in lastMark :
        \E r \in attendance :
            /\ RowsOfKey(attendance, m.student_id, m.subject_id, m.date) = {r}
            /\ r.status = m.status
            /\ r.time = m.time

\* a key marked again, with another status and another time than its row had
C1_Witness == ret.op = "mark" /\ ret.existed /\ ret.changed

\* C2: whatever the interleaving of the sessions' SELECT and INSERT/UPDATE
\* steps, no two rows of the ledger have the same (student, subject, date).
C2_NoDuplicateKey ==
    \A r1 \in attendance : \A r2 \in attendance :
        KeyOf(r1) = KeyOf(r2) => r1.id = r2.id

\* C3: a call of the reconciler turns a row's synced flag from false to true
\* only if the row is in a report for which the transport returned success.
C3_SyncedOnlyAfterSuccess ==
    [][ret'.op \in {"sync", "report"} =>
         \A r \in attendance : \A r2 \in attendance' :
             (r2.id = r.id /\ ~r.synced /\ r2.synced)
                 => r.id \in BatchIds(ret'.batches, TRUE)]_vars

\* a sync call with a delivered batch, now synced, and a failed one
C3_Witness ==
    /\ ret.op = "sync"
    /\ Failed # {}
    /\ \E r \in attendance : r.id \in Delivered /\ r.synced

\* C4: after a call, every row of a batch whose delivery failed and that was
\* pending is still pending, and a sync call that directly follows a sync
\* call forms every batch that failed there again, with the same rows.
C4_FailedBatchStaysPending ==
    /\ ret.op \in {"sync", "report"} =>
         \A r \in attendance :
             (r.id \in Failed /\ r.id \in ret.pending) => ~r.synced
    /\ (ret.op = "sync" /\ ret.afterSync) =>
         ret.prevFailed \subseteq (BatchesOf(ret.batches, TRUE)
                                   \cup BatchesOf(ret.batches, FALSE))

\* a batch of two rows failed in one sync call and is sent again by the next
C4_Witness ==
    /\ ret.op = "sync"
    /\ ret.afterSync
    /\ \E b \in ret.prevFailed :
          /\ Cardinality(b) = 2
          /\ b \in BatchesOf(ret.batches, TRUE) \cup BatchesOf(ret.batches, FALSE)

C7_SuccessMeansAllSynced ==
    ret.op \in {"sync", "report"} =>
        \A r \in attendance : r.id \in Delivered => r.synced

\* C8: every row that was pending when sync_pending_attendance was called is
\* in exactly one batch of the call, and the rows of a batch have the date
\* and the subject of the batch.
C8_PendingPartitioned ==
    ret.op = "sync" =>
        /\ \A id \in ret.pending :
               Cardinality({i \in 1..Len(ret.batches) :
                               id \in ret.batches[i].ids}) = 1
        /\ \A i \in 1..Len(ret.batches) : \A r \in attendance :
               r.id \in ret.batches[i].ids =>
                   /\ r.date = ret.batches[i].date
                   /\ r.subject_id = ret.batches[i].subject_id

\* C9: a mark_attendance call on a key that has a row, made without asking
\* for a re-sync (sync left at its default), leaves the row's synced flag as
\* it was.
C9_UpdateKeepsSynced ==
    (ret.op = "mark" /\ ret.existed /\ ret.sync) =>
        \A r \in RetRows : r.synced = ret.oldSynced

\* C10: a mark_attendance call on a key that had no row leaves a row with
\* synced = false, whatever its arguments.
C10_InsertPending ==
    (ret.op = "mark" /\ ~ret.existed) => \A r \in RetRows : ~r.synced

C19_DeletedIdNeverReassigned == students \cap deleted = {}

C19_Witness ==
    /\ out.op = "enroll"
    /\ out.success
    /\ deleted # {}
    /\ \E s \in students : \A d \in deleted : s > d

\* the roll number of the last add_student / update_student call was held by
\* another student when the call was made
HeldByAnother ==
    \E s \in out.before.students \ {out.student_id} :
        out.before.info[s].roll_no = out.roll_no

\* C20: no two students of the identity store have the same roll number, and
\* an add_student / update_student call whose roll number is held by another
\* student returns failure with "Roll number already exists" and leaves the
\* store unchanged.
C20_RollNoUnique ==
    /\ \A a, b \in students : a # b => info[a].roll_no # info[b].roll_no
    /\ (out.op \in {"enroll", "update"} /\ out.called /\ HeldByAnother) =>
           /\ ~out.success
           /\ out.message = "Roll number already exists"
           /\ Store = out.before

C20_Witness ==
    /\ out.op = "update"
    /\ HeldByAnother
    /\ ~out.success
    /\ Cardinality(students) = 2

\* the identities a recognize_faces result matched (0 is unknown)
Matched(r) == {r.face_ids[i] : i \in DOMAIN r.face_ids} \ {0}

\* C11: for every observed face, gallery and threshold, recognize_faces
\* returns the identity of the gallery at minimum distance when that distance
\* is at most the threshold, and unknown otherwise (also for an empty
\* gallery).
C11_NearestWithinThreshold ==
    out.op = "recognize" =>
        \A i \in DOMAIN out.image :
            LET face == out.image[i]
                near == Nearest(face)
            IN  IF near # {} /\ \E k \in near : face[k] <= out.t1
                THEN out.r1.face_ids[i] \in {known_face_ids[k] : k \in near}
                ELSE out.r1.face_ids[i] = 0

C15_ReaderSeesWholeGallery ==
    (seen.op = "read" /\ seen.reloading) =>
        /\ seen.gallery \in {seen.old, seen.new}
        /\ Len(seen.gallery.encodings) = Len(seen.gallery.names)
        /\ Len(seen.gallery.names) = Len(seen.gallery.ids)

\* C16: when get_all_face_encodings cannot read the store during
\* load_known_faces, the gallery after the call is the snapshot it had
\* before the call and the call reports a count of zero.
C16_FailedReloadKeepsSnapshot ==
    (out.op = "load" /\ ~out.readOk /\ load.pc = "idle") =>
        /\ CurrentGallery = out.snapshot
        /\ out.count = 0

\* the students that match the semester filter of the last stats call
MatchingStudents ==
    {s \in students : out.semester = 0 \/ info[s].semester = out.semester}

\* the matching students with a 'present' record that matches the date and
\* subject filters of the last stats call
PresentStudents ==
    {s \in MatchingStudents :
        \E r \in attendance :
            /\ r.student_id = s
            /\ r.status = "present"
            /\ out.date_filter = 0 \/ r.date = out.date_filter
            /\ out.subject_id = 0 \/ r.subject_id = out.subject_id}

\* C13: get_attendance_stats returns present = the number of distinct
\* students with a 'present' record matching all given filters, and
\* absent = total - present.
C13_PresentCountsDistinctStudents ==
    out.op = "stats" =>
        /\ out.stats.present = Cardinality(PresentStudents)
        /\ out.stats.absent = out.stats.total - out.stats.present

\* C14: get_attendance_stats returns total = the number of students matching
\* the student filters, whatever date_filter and subject_id are.
C14_TotalIgnoresDateAndSubject ==
    out.op = "stats" => out.stats.total = Cardinality(MatchingStudents)

\* C18: an attendance row whose subject still exists is returned by
\* get_attendance for its own date and subject, also when its student was
\* deleted.
C18_DeletedStudentRowsReturned ==
    \A r \in attendance :
        r.subject_id \in subjects =>
            r \in get_attendance(attendance, students, subjects, r.date,
                                 r.subject_id)

\* C21: every report handed to the transport, by sync_pending_attendance or
\* by the "Send Attendance Report" button of the attendance page, contains
\* only rows that were PENDING when the report was built.
C21_OnlyPendingDelivered ==
    ret.op \in {"sync", "report"} =>
        \A i \in 1..Len(ret.batches) : ret.batches[i].ids \subseteq ret.pending

\* what a sync_pending_attendance call made now does when the transport
\* answers outs
SyncResult(outs) ==
    sync_pending_attendance(attendance, students, subjects, outs, AttIds)

\* the value the call returns: the flag and the numbers and reasons of the
\* message text
Returned(res) ==
    [ok |-> res.ok, success_count |-> res.acc.success_count,
     error_count |-> res.acc.error_count,
     error_messages |-> res.acc.error_messages]

\* the keys (date, subject) of the batches that failed in the call
FailedKeys(res) ==
    {<<res.acc.batches[i].date, res.acc.batches[i].subject_id>> :
        i \in {j \in 1..Len(res.acc.batches) : ~res.acc.batches[j].success}}

\* C22: the value returned by sync_pending_attendance identifies every failed
\* batch by its key (date, subject): two calls that return the same value
\* have failed on the same batches.
C22_FailedBatchIdentified ==
    \A o1, o2 \in [1..NumGroups -> Transport] :
        Returned(SyncResult(o1)) = Returned(SyncResult(o2)) =>
            FailedKeys(SyncResult(o1)) = FailedKeys(SyncResult(o2))

\* C23: the webcam loop checks capture_active between frames (at most one
\* frame is read after the stop signal) and whenever the loop has been left,
\* by the stop signal, a failed read or an exception, the camera handle the
\* page opened is released
C23_CameraReleasedOnExit ==
    /\ run.pc = "page" => cap # "open"
    /\ run.exit # "none" /\ run.pc = "page" => cap = "released"
    /\ run.late <= 1

C23_Witness ==
    /\ run.pc = "page"
    /\ run.exit = "exception"
    /\ cap = "released"
    /\ out.op = "webcam"
    /\ out.marked # {}

\* C28: every identity recognize_faces returns is held by an entry of the
\* gallery, every student the webcam or the upload handler marks is in the
\* identity store at that moment, and with an empty gallery nothing is marked
C28_MarkedStudentsExist ==
    out.op \in {"webcam", "upload"} =>
        /\ out.unheld = {}
        /\ out.missing = {}
        /\ out.empty => out.marked = {}

\* C30: whatever the store, the ledger and the filters are, the result of
\* get_attendance_stats has 0 <= present <= total and absent >= 0
C30_StatsWithinBounds ==
    out.op = "stats" =>
        /\ 0 <= out.stats.present
        /\ out.stats.present <= out.stats.total
        /\ out.stats.absent >= 0

C30_Witness ==
    /\ out.op = "stats"
    /\ out.semester # 0
    /\ out.stats.total = 1
    /\ out.stats.present = 1
    /\ \E r \in attendance : r.student_id \in deleted /\ r.status = "present"

\* the sum of the counts of a grouped result
RECURSIVE SumCounts(_)
SumCounts(f) ==
    IF DOMAIN f = {} THEN 0
    ELSE LET b == CHOOSE x \in DOMAIN f : TRUE
         IN  f[b] + SumCounts([c \in DOMAIN f \ {b} |-> f[c]])

\* C25: the numbers of one get_attendance_stats result come from one
\* snapshot, also when marks, enrollments and deletions run between its
\* queries: absent = total - present and the per-branch present counts sum
\* to present
C25_StatsFromOneSnapshot ==
    out.op = "stats" =>
        /\ out.stats.absent = out.stats.total - out.stats.present
        /\ SumCounts(out.attendance_by_branch) = out.stats.present

\* the row of attendance r as the step leaves it, synced flag apart
KeptApartFromSynced(r) ==
    \E r2 \in attendance' : r2 = [r EXCEPT !.synced = r2.synced]

\* C26: no step deletes an attendance record; a reconciliation (sync or
\* report) changes nothing of a record but its synced flag; delete_student
\* and delete_subject leave the attendance table as it is; so the set of
\* ledger keys only grows
C26_LedgerOnlyGrows ==
    [][/\ {r.id : r \in attendance} \subseteq {r.id : r \in attendance'}
       /\ {KeyOf(r) : r \in attendance} \subseteq {KeyOf(r) : r \in attendance'}
       /\ ret'.op \in {"sync", "report"} =>
              /\ \A r \in attendance : KeptApartFromSynced(r)
              /\ Cardinality(attendance') = Cardinality(attendance)
       /\ students' # students \/ subjects' # subjects =>
              attendance' = attendance]_vars

C26_Witness ==
    /\ ret.op = "sync"
    /\ BatchIds(ret.batches, TRUE) # {}
    /\ \E r \in attendance : r.synced /\ r.student_id \notin students

\* C24: also when mark_attendance runs between the reconciler's read of the
\* pending rows and its mark_attendance_synced, a row that is SYNCED has the
\* status and the time that the delivered report held for it
C24_SyncedAsDelivered ==
    \A r \in attendance :
        r.synced /\ r.id \in DOMAIN rec.delivered =>
            rec.delivered[r.id] = <<r.status, r.time>>

\* C27: a sync_pending_attendance call that is under way returns, no batch
\* of a call gets a second delivery attempt, and when the call has returned
\* every batch got exactly one
C27_OneAttemptAndTermination ==
    /\ [](\A j \in DOMAIN rec.attempts :
            /\ rec.attempts[j] <= 1
            /\ rec.pc = "idle" => rec.attempts[j] = 1)
    /\ (rec.pc # "idle") ~> (rec.pc = "idle")

C27_Witness ==
    /\ rec.pc = "idle"
    /\ Len(rec.attempts) = 2
    /\ \E r \in attendance : ~r.synced
    /\ \E r \in attendance : r.synced

\* C29: with several sessions in methods of the one Database object, a
\* method works on the connection it opened itself, the connection a method
\* works on is not closed under it, and a connection that is open belongs to
\* a method that has not returned yet
C29_OwnConnectionClosedAtReturn ==
    /\ \A s \in Sessions :
          calls[s].pc \in {"cursor", "try", "finally", "clear"} =>
              calls[s].conn = calls[s].own
    /\ \A s \in Sessions :
          calls[s].pc = "try" => connections[calls[s].conn].open
    /\ \A c \in DOMAIN connections :
          connections[c].open =>
              \E s \in Sessions : calls[s].pc # "idle" /\ calls[s].own = c

====
